---- MODULE Spec2Model ----
(***************************************************************************)
(* gatekeeper: a declarative authorization pipeline.                       *)
(*                                                                         *)
(* gatekeeper(options) returns { rules, trust }.  trust(input, context) is *)
(* an async function: it normalises its arguments with options.context and *)
(* options.capture, then awaits every rule of options.rules in declaration *)
(* order, collecting the results under the rules' tags, and translates the *)
(* first error a rule raises into a GatekeeperUnauthorizedError.           *)
(*                                                                         *)
(* The repository holds two variants of the function: src/lib/index.ts and *)
(* src/unnamed/part_000 (which adds customRule and the check that skips an *)
(* undefined result).  The model carries both; options.variant says which  *)
(* one built the instance.                                                 *)
(*                                                                         *)
(* An async function runs without interruption from one await to the next, *)
(* so one action of the model is one such segment of one invocation:       *)
(*   Trust(i, ..)  the call of trust up to its first await (or its end),   *)
(*   Resume(i)     the continuation after an await, up to the next one.    *)
(***************************************************************************)
EXTENDS Integers, Sequences, FiniteSets, TLC

\* Bounds of the model.
MaxRules == 2          \* longest rule list an instance is configured with
MaxInvocations == 2    \* invocations of trust on the one instance

(***************************************************************************)
(* JavaScript values.  Every value is a record carrying its type, so that  *)
(* undefined, false, the empty string and an Error are all distinct.       *)
(***************************************************************************)
Undefined == [type |-> "undefined"]
Null == [type |-> "null"]
Str(s) == [type |-> "string", value |-> s]
Bool(b) == [type |-> "boolean", value |-> b]
\* new Error(message), allocated at `site`: two Error objects are the same
\* object only when they were allocated at the same place.
NewError(message, site) == [type |-> "Error", message |-> message, site |-> site]

\* String(v), as the catch clause applies it to a thrown value that is no Error.
String(v) ==
    CASE v.type = "string" -> v.value
      [] v.type = "boolean" -> (IF v.value THEN "true" ELSE "false")
      [] v.type = "undefined" -> "undefined"
      [] v.type = "null" -> "null"
      [] OTHER -> "[object Object]"

\* What a call of a user-supplied function does: it returns a value or throws one.
Return(v) == [kind |-> "return", value |-> v]
Throw(v) == [kind |-> "throw", value |-> v]

(***************************************************************************)
(* The user-supplied functions.  The library treats them as opaque; the    *)
(* model instantiates them with the functions of the test suite and a few  *)
(* more of the same shape, each a function of its arguments alone.         *)
(***************************************************************************)
RawInputs == {Str("admin"), Str("")}
RawContexts == {Undefined, Str("error")}

\* capture: (x: unknown) => Parameters
\*   cast       x => x as { userId: string }, the capture of every test
\*   normalize  a validating capture: rejects the empty id, upper-cases the others
CaptureKinds == {"cast", "normalize"}
capture(kind, x) ==
    CASE kind = "cast" -> Return(x)
      [] kind = "normalize" ->
            IF x = Str("") THEN Throw(NewError("invalid input", "capture"))
            ELSE IF x = Str("admin") THEN Return(Str("ADMIN"))
            ELSE Return(x)

\* context?: (x: unknown) => Context ; "none" is an instance configured without it.
\*   default    fills in a context when the caller passed none
\*   require    rejects a call without context
ContextKinds == {"none", "default", "require"}
context(kind, x) ==
    CASE kind = "default" -> IF x = Undefined THEN Return(Str("anon")) ELSE Return(x)
      [] kind = "require" ->
            IF x = Undefined THEN Throw(NewError("context required", "context"))
            ELSE Return(x)

\* The error object the second test suite shares between its rule and its assertions.
FAILED_ERROR == NewError("Something is wrong...", "FAILED_ERROR")

\* Rule evaluators: (parameters, context) => RuleReturn | Promise<RuleReturn>
\*   checkUserId  (params, ctx) => { if (params.userId === '')
\*                                       throw ctx?.error === true ? null : 'denied';
\*                                   return params.userId === 'admin' }
\*                returns true or false, or throws a value that is no Error
\*                (a string, or null)
\*   getRole      (params, ctx) => { if (ctx?.error === true) throw FAILED_ERROR;
\*                                   if (params.userId === 'admin') return 'root';
\*                                   if (params.userId !== '') return '' }
\*                returns a string (the empty one for a user without role) or
\*                undefined, or throws an Error
RuleKinds == {"checkUserId", "getRole"}
rule(kind, parameters, ctx) ==
    CASE kind = "checkUserId" ->
            IF parameters = Str("")
            THEN Throw(IF ctx = Str("error") THEN Null ELSE Str("denied"))
            ELSE Return(Bool(parameters = Str("admin")))
      [] kind = "getRole" ->
            IF ctx = Str("error") THEN Throw(FAILED_ERROR)
            ELSE IF parameters = Str("admin") THEN Return(Str("root"))
            ELSE IF parameters # Str("") THEN Return(Str(""))
            ELSE Return(Undefined)

\* customRule(tag, ruleFn): the pair [tag, ruleFn].
customRule(tag, ruleFn) == <<tag, ruleFn>>

\* The names rules are given.  Nothing depends on what a name is, only on which
\* rules share one, so a rule list takes its names in order of first use.
TagNames == <<"a", "b", "c", "d", "e">>
Tags == {TagNames[i] : i \in 1..MaxRules}
TagsInOrder(rs) ==
    \A k \in 1..Len(rs) :
        \E j \in 1..k :
            /\ rs[k][1] = TagNames[j]
            /\ \A m \in 1..(j - 1) : \E q \in 1..(k - 1) : rs[q][1] = TagNames[m]

RuleSets ==
    {rs \in UNION {[1..n -> {customRule(t, k) : t \in Tags, k \in RuleKinds}] : n \in 0..MaxRules} :
        TagsInOrder(rs)}

\* The two variants of gatekeeper() in the repository.
Variants == {"lib", "part_000"}

\* GatekeeperOptions, and which variant of gatekeeper() is given them.
GatekeeperOptions ==
    [variant : Variants, capture : CaptureKinds, context : ContextKinds, rules : RuleSets]

VARIABLES
    options,    \* the options the instance was constructed with
    inv         \* inv[i]: the locals and the outcome of the i-th invocation of trust

vars == <<options, inv>>

Invocations == 1..MaxInvocations

\* class GatekeeperUnauthorizedError: the rule parameter defaults to 'failcheck',
\* and a default applies when the argument is undefined.
GatekeeperUnauthorizedError(message, reason, ruleName) ==
    [type |-> "GatekeeperUnauthorizedError",
     message |-> message,
     reason |-> reason,
     rule |-> IF ruleName = Undefined THEN Str("failcheck") ELSE ruleName]

\* An invocation that has not been made yet.
Idle ==
    [pc |-> "idle", input |-> Undefined, context |-> Undefined,
     validatedContext |-> Undefined, parameters |-> Undefined,
     currentRule |-> Undefined, returnOfRuleSet |-> <<>>, next |-> 0,
     pending |-> Return(Undefined), result |-> <<>>, error |-> Undefined,
     trace |-> <<>>]

\* The latest invocation made so far, 0 when there is none.
Latest == IF \E j \in 1..MaxInvocations : inv[j].pc # "idle"
          THEN CHOOSE j \in 1..MaxInvocations :
                   /\ inv[j].pc # "idle"
                   /\ \A k \in 1..MaxInvocations : inv[k].pc # "idle" => k <= j
          ELSE 0

\* Locals with the accumulator declared in gatekeeper() instead of trust(): a call
\* starts with the entries the call before it left there.
Locals_Shared(input, ctx) ==
    [Idle EXCEPT !.input = input, !.context = ctx, !.currentRule = Undefined,
                 !.returnOfRuleSet = IF Latest = 0 THEN <<>> ELSE inv[Latest].returnOfRuleSet]

\* The locals of trust as a call starts: `let currentRule = undefined`.
Locals(input, ctx) ==
    [Idle EXCEPT !.input = input, !.context = ctx, !.currentRule = Undefined]

\* Normalisation moved inside the try block: its errors are translated too.
Propagate_Wrapped(s, thrown) ==
    [s EXCEPT !.pc = "rejected",
              !.error = GatekeeperUnauthorizedError("UNAUTHORIZED", thrown, s.currentRule)]

\* The promise of trust rejects with a value thrown outside the try block.
Propagate(s, thrown) == [s EXCEPT !.pc = "rejected", !.error = thrown]

\* A return that treats an empty result as a denial.
Resolve_RequireEntry(s) ==
    IF DOMAIN s.returnOfRuleSet = {}
    THEN [s EXCEPT !.pc = "rejected",
                   !.error = GatekeeperUnauthorizedError(
                                 "UNAUTHORIZED", NewError("no rule passed", "trust"),
                                 s.currentRule)]
    ELSE [s EXCEPT !.pc = "resolved", !.result = s.returnOfRuleSet]

\* `return returnOfRuleSet`.
Resolve(s) == [s EXCEPT !.pc = "resolved", !.result = s.returnOfRuleSet]

\* A catch clause that reads the tracker from a variable declared in gatekeeper()
\* instead of trust(): it holds what the latest invocation wrote there.
Catch_SharedTracker(s, thrown) ==
    [s EXCEPT !.pc = "rejected",
              !.error =
                  GatekeeperUnauthorizedError(
                      "UNAUTHORIZED",
                      IF thrown.type = "Error" THEN thrown
                      ELSE NewError(String(thrown), "trust"),
                      IF Latest = 0 THEN s.currentRule ELSE inv[Latest].currentRule)]

\* A catch clause that builds the error and neither throws nor returns it to
\* anything that settles the promise: the invocation stays pending.
Catch_NoReject(s, thrown) ==
    [s EXCEPT !.pc = "pending",
              !.error = GatekeeperUnauthorizedError("UNAUTHORIZED", thrown, s.currentRule)]

\* A catch clause that swallows the error and returns what was collected so far.
Catch_Swallow(s, thrown) == [s EXCEPT !.pc = "resolved", !.result = s.returnOfRuleSet]

\* A catch clause without the instanceof test: whatever was thrown becomes the
\* reason as it is.
Catch_Uncoerced(s, thrown) ==
    [s EXCEPT !.pc = "rejected",
              !.error = GatekeeperUnauthorizedError("UNAUTHORIZED", thrown, s.currentRule)]

\* A catch clause that wraps whatever was thrown in a new Error.
Catch_Stringify(s, thrown) ==
    [s EXCEPT !.pc = "rejected",
              !.error = GatekeeperUnauthorizedError(
                            "UNAUTHORIZED", NewError(String(thrown), "trust"), s.currentRule)]

\* The catch clause.
Catch(s, thrown) ==
    [s EXCEPT !.pc = "rejected",
              !.error =
                  IF thrown.type = "Error"
                  THEN GatekeeperUnauthorizedError("UNAUTHORIZED", thrown, s.currentRule)
                  ELSE GatekeeperUnauthorizedError(
                           "UNAUTHORIZED", NewError(String(thrown), "trust"), s.currentRule)]

\* An assignment that keeps the entry a name already has (`??=`).
Assign_KeepFirst(acc, tag, value) ==
    IF tag \in DOMAIN acc THEN acc
    ELSE [t \in DOMAIN acc \cup {tag} |-> IF t = tag THEN value ELSE acc[t]]

\* An assignment that starts a new object instead of writing into the accumulator.
Assign_Replace(acc, tag, value) == [t \in {tag} |-> value]

\* The body of the loop after the await, in each variant:
\* part_000 writes the result unless it is undefined, lib/index.ts always writes it.
Assign(acc, tag, value) == [t \in DOMAIN acc \cup {tag} |-> IF t = tag THEN value ELSE acc[t]]

\* A test of the result for truthiness, `if (result)`: false, '' and null are
\* skipped like undefined.
StoreResult_Truthy(variant, acc, tag, value) ==
    IF value \in {Undefined, Null, Bool(FALSE), Str("")} THEN acc ELSE Assign(acc, tag, value)

StoreResult(variant, acc, tag, value) ==
    IF variant = "part_000"
    THEN IF value # Undefined THEN Assign(acc, tag, value) ELSE acc
    ELSE Assign(acc, tag, value)

\* What the model remembers of a call of a user-supplied function: which function
\* (for a rule, its position in the list), the arguments it was given and what it did.
Event(ev, index, args, outcome) == [ev |-> ev, index |-> index, args |-> args, outcome |-> outcome]

\* A call that hands the evaluator the context trust was given, not the validated one.
Invoke_RawContext(opts, s) ==
    Event("call", s.next, <<s.parameters, s.context>>,
          rule(opts.rules[s.next][2], s.parameters, s.context))

\* `rule(parameters, validatedContext)`: the call of the evaluator at s.next.
Invoke(opts, s) ==
    Event("call", s.next, <<s.parameters, s.validatedContext>>,
          rule(opts.rules[s.next][2], s.parameters, s.validatedContext))

\* A loop that calls the evaluator without awaiting it before it takes the next rule:
\* the evaluator after it is called in the same turn.
Iterate_Eager(opts, s) ==
    IF s.next > Len(opts.rules)
    THEN Resolve(s)
    ELSE LET call == Invoke(opts, s)
             called == [s EXCEPT !.currentRule = Str(opts.rules[s.next][1]),
                                 !.trace = Append(@, call)]
             ahead == [called EXCEPT !.next = @ + 1]
         IN  [called EXCEPT
                 !.pc = "awaiting",
                 !.pending = call.outcome,
                 !.trace = IF ahead.next <= Len(opts.rules)
                           THEN Append(@, Invoke(opts, ahead))
                           ELSE @]

\* A loop that records the tag after the await instead of before the call: while
\* rule k runs the tracker still names rule k - 1, and nothing during the first.
Iterate_LateTracker(opts, s) ==
    IF s.next > Len(opts.rules)
    THEN Resolve(s)
    ELSE LET r == [s EXCEPT !.currentRule = IF s.next > 1
                                            THEN Str(opts.rules[s.next - 1][1])
                                            ELSE Undefined]
             call == Invoke(opts, r)
         IN  [r EXCEPT !.trace = Append(@, call),
                       !.pc = "awaiting",
                       !.pending = call.outcome]

\* A loop that normalises the input again for every rule: capture is called in
\* the loop body instead of once before it.
Iterate_Recapture(opts, s) ==
    IF s.next > Len(opts.rules)
    THEN Resolve(s)
    ELSE LET p == capture(opts.capture, s.input)
             r == [s EXCEPT !.currentRule = Str(opts.rules[s.next][1]),
                            !.parameters = p.value,
                            !.trace = Append(@, Event("capture", 0, <<s.input>>, p))]
             call == Invoke(opts, r)
         IN  [r EXCEPT !.trace = Append(@, call),
                       !.pc = "awaiting",
                       !.pending = call.outcome]

\* The for-of loop from its head, with s.next the position of the iterator, up to
\* the await: past the last rule the result is returned; otherwise the tag is
\* recorded, the evaluator is called and trust is left waiting for what it does
\* (s.pending).
Iterate(opts, s) ==
    IF s.next > Len(opts.rules)
    THEN Resolve(s)
    ELSE LET call == Invoke(opts, [s EXCEPT !.currentRule = Str(opts.rules[s.next][1])])
         IN  [s EXCEPT !.currentRule = Str(opts.rules[s.next][1]),
                       !.trace = Append(@, call),
                       !.pc = "awaiting",
                       !.pending = call.outcome]

\* A loop whose try block is inside it: a rule's error is dropped and the loop goes on.
Continue_NoFailFast(opts, s) ==
    LET settled == [s EXCEPT !.trace = Append(@, Event("settle", s.next, <<>>, s.pending))]
    IN  Iterate(opts,
                [settled EXCEPT
                    !.returnOfRuleSet =
                        IF s.pending.kind = "throw" THEN @
                        ELSE StoreResult(opts.variant, @, opts.rules[s.next][1], s.pending.value),
                    !.next = @ + 1])

\* trust from the point where the evaluator it called has done what it does: a
\* thrown value reaches the catch clause, a returned one is stored and the loop
\* takes the next rule.
Continue(opts, s) ==
    LET settled == [s EXCEPT !.trace = Append(@, Event("settle", s.next, <<>>, s.pending))]
    IN  IF s.pending.kind = "throw"
        THEN Catch(settled, s.pending.value)
        ELSE Iterate(opts,
                     [settled EXCEPT
                         !.returnOfRuleSet =
                             StoreResult(opts.variant, @, opts.rules[s.next][1], s.pending.value),
                         !.next = @ + 1])

\* A trust that normalises the input before the context: capture is called
\* first, the context function after it.
Begin_CaptureFirst(opts, input, ctx) ==
    LET s0 == Locals(input, ctx)
        p == capture(opts.capture, input)
        s1 == [s0 EXCEPT !.trace = Append(@, Event("capture", 0, <<input>>, p))]
        c == IF opts.context # "none" THEN context(opts.context, ctx) ELSE Return(Undefined)
        s2 == IF opts.context # "none"
              THEN [s1 EXCEPT !.trace = Append(@, Event("context", 0, <<ctx>>, c))]
              ELSE s1
    IN  IF p.kind = "throw" THEN Propagate(s1, p.value)
        ELSE IF c.kind = "throw" THEN Propagate(s2, c.value)
        ELSE Iterate(opts,
                     [s2 EXCEPT !.validatedContext = c.value,
                                !.parameters = p.value,
                                !.next = 1])

\* A trust that, without a context function, hands the evaluators the context
\* it was given: `options.context ? options.context(context) : context`.
Begin_PassThrough(opts, input, ctx) ==
    LET s0 == Locals(input, ctx)
        c == IF opts.context # "none" THEN context(opts.context, ctx) ELSE Return(ctx)
        s1 == IF opts.context # "none"
              THEN [s0 EXCEPT !.trace = Append(@, Event("context", 0, <<ctx>>, c))]
              ELSE s0
        p == capture(opts.capture, input)
        s2 == [s1 EXCEPT !.trace = Append(@, Event("capture", 0, <<input>>, p))]
    IN  IF c.kind = "throw" THEN Propagate(s1, c.value)
        ELSE IF p.kind = "throw" THEN Propagate(s2, p.value)
        ELSE Iterate(opts,
                     [s2 EXCEPT !.validatedContext = c.value,
                                !.parameters = p.value,
                                !.next = 1])

\* trust(input, context) from its call to the first await.
Begin(opts, input, ctx) ==
    LET s0 == Locals(input, ctx)
        c == IF opts.context # "none" THEN context(opts.context, ctx) ELSE Return(Undefined)
        s1 == IF opts.context # "none"
              THEN [s0 EXCEPT !.trace = Append(@, Event("context", 0, <<ctx>>, c))]
              ELSE s0
        p == capture(opts.capture, input)
        s2 == [s1 EXCEPT !.trace = Append(@, Event("capture", 0, <<input>>, p))]
    IN  IF c.kind = "throw" THEN Propagate(s1, c.value)
        ELSE IF p.kind = "throw" THEN Propagate(s2, p.value)
        ELSE Iterate(opts,
                     [s2 EXCEPT !.validatedContext = c.value,
                                !.parameters = p.value,
                                !.next = 1])

\* The object gatekeeper(options) returns: its rules property is options.rules,
\* the array the caller configured (no copy of it).
Gatekeeper(opts) == [rules |-> opts.rules, trust |-> "trust"]

\* A loop that takes the rules off the list as it goes (rules.shift()).
ForOf_Shift(rs) == IF Len(rs) > 0 THEN Tail(rs) ELSE rs

\* `for (const [tag, rule] of options.rules)`: what the loop leaves of the list
\* it iterates.  for-of reads the elements by position (Iterate, s.next) and
\* writes nothing; no other statement of trust names options.rules.
ForOf(rs) == rs

\* gatekeeper(options): the instance; no invocation has been made.
Init ==
    /\ options \in GatekeeperOptions
    /\ inv = [i \in Invocations |-> Idle]

\* An evaluator completes before it returns (it returns a value, or throws
\* synchronously), or it returns a promise that settles later.  trust awaits a
\* value and a promise alike, so the two differ only when the evaluator throws:
\* a synchronous throw reaches the catch clause in the turn of the call, a
\* rejection in a later turn.  s is trust waiting for the evaluator it called.
Modes(s) ==
    IF s.pc = "awaiting" /\ s.pending.kind = "throw" THEN {"sync", "async"} ELSE {"async"}
Turn(s, mode) == IF mode = "sync" THEN Continue(options, s) ELSE s

\* The i-th call of trust on the instance, up to its first await.
Trust(i, input, ctx) ==
    /\ inv[i].pc = "idle"
    /\ \A j \in 1..(i - 1) : inv[j].pc # "idle"
    /\ LET s == Begin(options, input, ctx)
       IN  \E mode \in Modes(s) : inv' = [inv EXCEPT ![i] = Turn(s, mode)]
    /\ options' = [options EXCEPT !.rules = ForOf(@)]

\* What invocation i awaits has settled: trust runs on to its next await.
Resume(i) ==
    /\ inv[i].pc = "awaiting"
    /\ LET s == Continue(options, inv[i])
       IN  \E mode \in Modes(s) : inv' = [inv EXCEPT ![i] = Turn(s, mode)]
    /\ options' = [options EXCEPT !.rules = ForOf(@)]

Next ==
    \/ \E i \in Invocations, input \in RawInputs, ctx \in RawContexts : Trust(i, input, ctx)
    \/ \E i \in Invocations : Resume(i)

\* Calls of trust made at any time, also while earlier ones are in flight.
Spec == Init /\ [][Next]_vars

\* Calls of trust made one after the other: the caller awaits each.
NextSequential ==
    \/ \E i \in Invocations, input \in RawInputs, ctx \in RawContexts :
           /\ \A j \in 1..(i - 1) : inv[j].pc \in {"resolved", "rejected"}
           /\ Trust(i, input, ctx)
    \/ \E i \in Invocations : Resume(i)

SpecSequential == Init /\ [][NextSequential]_vars

\* The same, with what the event loop guarantees: when the promise an
\* invocation awaits has settled, its continuation is run.  Every evaluator of
\* the model returns or settles, so Resume(i) is enabled whenever invocation i
\* awaits.  Nothing obliges the caller to call trust.
SpecSequentialFair == SpecSequential /\ \A i \in Invocations : WF_vars(Resume(i))

(***************************************************************************)
(* Properties                                                              *)
(***************************************************************************)
Made == {i \in Invocations : inv[i].pc # "idle"}
Settled == {i \in Invocations : inv[i].pc \in {"resolved", "rejected"}}

\* The positions of an invocation's trace that hold an event of kind ev.
At(s, ev) == {p \in 1..Len(s.trace) : s.trace[p].ev = ev}
\* The calls and settlements of rule evaluators, in the order they happened.
RuleEvents(s) == SelectSeq(s.trace, LAMBDA e : e.ev \in {"call", "settle"})
\* An evaluator that was called and throws (at once, or when its promise settles).
ThrowingCalls(s) == {p \in At(s, "call") : s.trace[p].outcome.kind = "throw"}
TagAt(k) == options.rules[k][1]
UniqueTags == \A j, k \in 1..Len(options.rules) : TagAt(j) = TagAt(k) => j = k

\* C1 (fail-fast): once the evaluator of rule k has been called and throws or
\* rejects, no evaluator is called after it in that invocation, the invocation
\* is awaiting that rejection or has rejected, and it has rejected once the
\* rejection was delivered.
C1_FailFast ==
    \A i \in Invocations :
        \A p \in ThrowingCalls(inv[i]) :
            /\ \A q \in At(inv[i], "call") : q <= p
            /\ inv[i].pc \in {"awaiting", "rejected"}
            /\ (\E q \in At(inv[i], "settle") : q > p) => inv[i].pc = "rejected"

\* A rule that is not the last one threw, and the invocation has rejected.
C1_Witness ==
    \E i \in Invocations :
        /\ inv[i].pc = "rejected"
        /\ \E p \in ThrowingCalls(inv[i]) : inv[i].trace[p].index < Len(options.rules)

\* C2 (failure attribution): when the evaluator of rule k throws an Error e, trust
\* rejects with a GatekeeperUnauthorizedError whose message is 'UNAUTHORIZED',
\* whose rule is the name of rule k and whose reason is e itself.
C2_Attribution ==
    \A i \in Invocations :
        \A p \in ThrowingCalls(inv[i]) :
            (inv[i].pc = "rejected" /\ inv[i].trace[p].outcome.value.type = "Error") =>
                inv[i].error =
                    [type |-> "GatekeeperUnauthorizedError",
                     message |-> "UNAUTHORIZED",
                     reason |-> inv[i].trace[p].outcome.value,
                     rule |-> Str(TagAt(inv[i].trace[p].index))]

\* The second of two rules with different names threw an Error.
C2_Witness ==
    \E i \in Invocations :
        /\ inv[i].pc = "rejected"
        /\ \E p \in ThrowingCalls(inv[i]) :
              /\ inv[i].trace[p].outcome.value = FAILED_ERROR
              /\ inv[i].trace[p].index = 2
              /\ TagAt(1) # TagAt(2)

\* The rules of an invocation that returned (or resolved to) undefined / a value.
ReturnedUndefined(s) ==
    {s.trace[p].index : p \in {q \in At(s, "settle") : s.trace[q].outcome = Return(Undefined)}}
ReturnedValue(s) ==
    {s.trace[p].index : p \in {q \in At(s, "settle") :
        s.trace[q].outcome.kind = "return" /\ s.trace[q].outcome.value # Undefined}}

\* C3 (skip-on-empty): in the result of a successful invocation no key holds
\* undefined, and the name of a rule that returned undefined is a key only if
\* another rule of that name returned a value.
C3_SkipOnEmpty ==
    \A i \in Invocations :
        inv[i].pc = "resolved" =>
            /\ \A t \in DOMAIN inv[i].result : inv[i].result[t] # Undefined
            /\ \A k \in ReturnedUndefined(inv[i]) :
                  TagAt(k) \in DOMAIN inv[i].result =>
                      \E j \in ReturnedValue(inv[i]) : TagAt(j) = TagAt(k)

\* C4: when the names are unique and every evaluator returned a value other than
\* undefined, the keys of the result are the names of the rules and each key holds
\* the value its rule returned.
C4_OneEntryPerRule ==
    \A i \in Invocations :
        (/\ inv[i].pc = "resolved"
         /\ UniqueTags
         /\ ReturnedValue(inv[i]) = 1..Len(options.rules)) =>
            /\ DOMAIN inv[i].result = {TagAt(k) : k \in 1..Len(options.rules)}
            /\ \A p \in At(inv[i], "settle") :
                  inv[i].result[TagAt(inv[i].trace[p].index)] = inv[i].trace[p].outcome.value

\* Two rules with different names both returned a value.
C4_Witness ==
    \E i \in Invocations :
        /\ inv[i].pc = "resolved"
        /\ UniqueTags
        /\ Len(options.rules) = 2
        /\ ReturnedValue(inv[i]) = {1, 2}

\* C5 (sequential evaluation in declaration order): the calls and settlements of
\* an invocation's evaluators alternate, call 1, settle 1, call 2, settle 2, ...:
\* the k-th call is the call of the k-th rule of the list and comes after the
\* settlement of rule k - 1, and at most one evaluator is in progress.
C5_Sequential ==
    \A i \in Invocations :
        LET es == RuleEvents(inv[i])
        IN  \A p \in 1..Len(es) :
                /\ es[p].index = (p + 1) \div 2
                /\ es[p].ev = IF p % 2 = 1 THEN "call" ELSE "settle"

\* An invocation awaits its second rule: call 1, settle 1, call 2.
C5_Witness ==
    \E i \in Invocations :
        /\ inv[i].pc = "awaiting"
        /\ Len(RuleEvents(inv[i])) = 3

\* The last position of a trace that holds a call, 0 when it holds none.
LastCall(s) ==
    IF At(s, "call") = {} THEN 0
    ELSE CHOOSE p \in At(s, "call") : \A q \in At(s, "call") : q <= p
\* Every entry of the mapping m is the value a rule of that name returned to s.
OwnEntries(s, m) ==
    \A t \in DOMAIN m :
        \E p \in At(s, "settle") :
            /\ TagAt(s.trace[p].index) = t
            /\ s.trace[p].outcome = Return(m[t])

\* C6 (no interference between concurrent invocations): in every state of every
\* interleaving, the accumulator and the result of an invocation hold only
\* values its own evaluator calls returned, its tracker names the rule its own
\* last call started, and a failure is attributed to the rule it was itself
\* executing.
C6_NoInterference ==
    \A i \in Made :
        LET s == inv[i]
            last == LastCall(s)
        IN  /\ OwnEntries(s, s.returnOfRuleSet)
            /\ s.result = IF s.pc = "resolved" THEN s.returnOfRuleSet ELSE <<>>
            /\ s.currentRule = IF last = 0 THEN Undefined
                               ELSE Str(TagAt(s.trace[last].index))
            /\ (s.pc = "rejected" /\ last # 0) =>
                   /\ s.error.type = "GatekeeperUnauthorizedError"
                   /\ s.error.rule = Str(TagAt(s.trace[last].index))

\* Two invocations with different arguments are in flight at once: the first has
\* stored a result and awaits its second rule, which will reject; the second
\* awaits its first rule.
C6_Witness ==
    /\ MaxInvocations >= 2
    /\ inv[1].pc = "awaiting" /\ inv[2].pc = "awaiting"
    /\ inv[1].next = 2 /\ inv[2].next = 1
    /\ inv[1].pending.kind = "throw"
    /\ DOMAIN inv[1].returnOfRuleSet # {}
    /\ inv[1].currentRule # inv[2].currentRule
    /\ <<inv[1].input, inv[1].context>> # <<inv[2].input, inv[2].context>>

\* What the normalisation of an invocation's arguments threw, if it threw.
NormalizationThrows(s) ==
    {s.trace[p].outcome.value :
        p \in {q \in At(s, "context") \cup At(s, "capture") : s.trace[q].outcome.kind = "throw"}}

\* C7 (pre-pipeline errors are not wrapped): when the context function or capture
\* throws, trust rejects with the thrown value itself and no evaluator is called.
C7_PrePipelineUnwrapped ==
    \A i \in Invocations :
        \A e \in NormalizationThrows(inv[i]) :
            /\ inv[i].pc = "rejected"
            /\ inv[i].error = e
            /\ At(inv[i], "call") = {}

\* capture threw on an instance that has rules.
C7_Witness ==
    \E i \in Invocations :
        /\ Len(options.rules) > 0
        /\ \E p \in At(inv[i], "capture") : inv[i].trace[p].outcome.kind = "throw"

\* C8 as claimed: with an empty rule list every invocation succeeds with an empty
\* result and never fails.
C8_EmptyNeverFails ==
    \A i \in Made :
        Len(options.rules) = 0 =>
            inv[i].pc = "resolved" /\ DOMAIN inv[i].result = {}

\* C8 as amended: with an empty rule list an invocation whose context function
\* and capture return normally succeeds with an empty result; it fails only with
\* what the context function or capture threw.
C8_EmptySucceeds ==
    \A i \in Made :
        Len(options.rules) = 0 =>
            IF NormalizationThrows(inv[i]) = {}
            THEN inv[i].pc = "resolved" /\ DOMAIN inv[i].result = {}
            ELSE inv[i].pc = "rejected" /\ inv[i].error \in NormalizationThrows(inv[i])

\* An invocation on an instance without rules has resolved.
C8_Witness ==
    \E i \in Invocations : Len(options.rules) = 0 /\ inv[i].pc = "resolved"

\* C9: a configured context function is called with the context trust was given
\* (undefined when the caller gave none), and every evaluator is called with the
\* value it returned and with the value capture returned for the input.
C9_SharedArguments ==
    \A i \in Made :
        /\ options.context # "none" =>
              /\ inv[i].trace[1] =
                     Event("context", 0, <<inv[i].context>>,
                           context(options.context, inv[i].context))
              /\ \A p \in At(inv[i], "call") :
                     inv[i].trace[p].args[2] = context(options.context, inv[i].context).value
        /\ \A p \in At(inv[i], "call") :
               inv[i].trace[p].args[1] = capture(options.capture, inv[i].input).value

\* The caller gave no context, the context function supplied one, and two
\* evaluators were called with it.
C9_Witness ==
    \E i \in Invocations :
        /\ options.context = "default"
        /\ options.capture = "normalize"
        /\ inv[i].context = Undefined
        /\ Cardinality(At(inv[i], "call")) = 2

\* What a call of trust on a new instance does, from the options and the
\* arguments alone.
Rejected(e) == <<"rejected", <<>>, e>>
Resolved(m) == <<"resolved", m, Undefined>>
Expected(opts, input, ctx) ==
    LET c == IF opts.context = "none" THEN Return(Undefined) ELSE context(opts.context, ctx)
        p == capture(opts.capture, input)
        n == Len(opts.rules)
        out(k) == rule(opts.rules[k][2], p.value, c.value)
        throwers == {k \in 1..n : out(k).kind = "throw"}
        first == CHOOSE k \in throwers : \A j \in throwers : k <= j
        kept == {k \in 1..n : opts.variant = "lib" \/ out(k).value # Undefined}
        last(t) == CHOOSE k \in kept :
                       /\ opts.rules[k][1] = t
                       /\ \A j \in kept : opts.rules[j][1] = t => j <= k
    IN  IF c.kind = "throw" THEN Rejected(c.value)
        ELSE IF p.kind = "throw" THEN Rejected(p.value)
        ELSE IF throwers # {}
        THEN Rejected([type |-> "GatekeeperUnauthorizedError",
                       message |-> "UNAUTHORIZED",
                       reason |-> IF out(first).value.type = "Error" THEN out(first).value
                                  ELSE NewError(String(out(first).value), "trust"),
                       rule |-> Str(opts.rules[first][1])])
        ELSE Resolved([t \in {opts.rules[k][1] : k \in kept} |-> out(last(t)).value])
Outcome(s) == <<s.pc, s.result, s.error>>

\* C10 (no state leaks between invocations): whatever invocations were made
\* before it, an invocation settles as a call with the same input and context
\* settles on a new instance.
C10_NoLeak ==
    \A i \in Settled : Outcome(inv[i]) = Expected(options, inv[i].input, inv[i].context)

\* The first invocation failed at its second rule after storing a result, and a
\* later invocation with other arguments succeeded.
C10_Witness ==
    /\ MaxInvocations >= 2
    /\ inv[1].pc = "rejected"
    /\ inv[1].next = 2
    /\ DOMAIN inv[1].returnOfRuleSet # {}
    /\ inv[2].pc = "resolved"

\* How many times an invocation called the context function / capture, and
\* whether its context function threw.
Calls(s, ev) == Cardinality(At(s, ev))
ContextThrew(s) == \E p \in At(s, "context") : s.trace[p].outcome.kind = "throw"

\* C11 as claimed: every invocation calls capture exactly once and a configured
\* context function exactly once.
C11_ExactlyOnce ==
    \A i \in Made :
        /\ Calls(inv[i], "capture") = 1
        /\ options.context # "none" => Calls(inv[i], "context") = 1

\* C11 as amended: every invocation calls a configured context function exactly
\* once (and never calls one that is not configured); it calls capture exactly
\* once when the context function returned or is not configured, and not at all
\* when the context function threw; whatever the rules do.
C11_OnceUnlessContextThrew ==
    \A i \in Made :
        /\ Calls(inv[i], "context") = IF options.context = "none" THEN 0 ELSE 1
        /\ Calls(inv[i], "capture") = IF ContextThrew(inv[i]) THEN 0 ELSE 1

\* An invocation with a context function went through two rules, the second of
\* which threw.
C11_Witness ==
    \E i \in Invocations :
        /\ options.context # "none"
        /\ inv[i].pc = "rejected"
        /\ Calls(inv[i], "call") = 2
        /\ Calls(inv[i], "capture") = 1

\* The calls of an invocation's evaluators that throw a value that is no Error.
NonErrorThrows(s) == {p \in ThrowingCalls(s) : s.trace[p].outcome.value.type # "Error"}

\* C12: the reason of a GatekeeperUnauthorizedError is an Error; when the
\* evaluator of rule k throws a value v that is no Error, trust rejects with a
\* GatekeeperUnauthorizedError whose reason is a new Error (made by trust, no
\* object of the caller) with message String(v), and whose rule is the name of
\* rule k.
C12_NonErrorCoerced ==
    \A i \in Invocations :
        /\ (inv[i].pc = "rejected" /\ inv[i].error.type = "GatekeeperUnauthorizedError") =>
               inv[i].error.reason.type = "Error"
        /\ \A p \in NonErrorThrows(inv[i]) :
               inv[i].pc = "rejected" =>
                   inv[i].error =
                       [type |-> "GatekeeperUnauthorizedError",
                        message |-> "UNAUTHORIZED",
                        reason |-> NewError(String(inv[i].trace[p].outcome.value), "trust"),
                        rule |-> Str(TagAt(inv[i].trace[p].index))]

\* An evaluator threw null, and trust rejected with a reason made by trust whose
\* message is the string 'null'.
C12_Witness ==
    \E i \in Invocations :
        /\ inv[i].pc = "rejected"
        /\ \E p \in NonErrorThrows(inv[i]) : inv[i].trace[p].outcome.value = Null
        /\ inv[i].error.reason = NewError("null", "trust")

\* C13: the rules property of the instance is the configured rule list, and no
\* step of any invocation of trust, successful or failed, changes the list: the
\* exposed rules after the step are the configured rules before it, with the
\* same length, the same rules and the same order.
C13_RulesUntouched ==
    /\ Gatekeeper(options).rules = options.rules
    /\ [][/\ options'.rules = options.rules
          /\ Gatekeeper(options').rules = options.rules]_vars

\* On an instance with two rules one invocation has succeeded and another has
\* failed, and the exposed list still has its two rules.
C13_Witness ==
    /\ Len(Gatekeeper(options).rules) = 2
    /\ \E i \in Invocations : inv[i].pc = "resolved"
    /\ \E i \in Invocations : inv[i].pc = "rejected" /\ inv[i].next > 0

\* C14: on an instance without a context function every evaluator of every
\* invocation is called with undefined as its context, whatever context the
\* caller passed to trust.
C14_UndefinedContext ==
    \A i \in Made :
        options.context = "none" =>
            /\ inv[i].validatedContext = Undefined
            /\ \A p \in At(inv[i], "call") : inv[i].trace[p].args[2] = Undefined

\* On an instance without a context function the caller passed a context, and
\* two evaluators were called.
C14_Witness ==
    \E i \in Invocations :
        /\ options.context = "none"
        /\ inv[i].context = Str("error")
        /\ Calls(inv[i], "call") = 2

\* The positions of an invocation's trace where rule k was called / settled.
CallsOf(s, k) == {p \in At(s, "call") : s.trace[p].index = k}
SettlementsOf(s, k) == {p \in At(s, "settle") : s.trace[p].index = k}

\* C15: an invocation has resolved only when every rule of the list was called
\* exactly once and settled exactly once, without an error; no rule is ever
\* called twice; and an invocation that is pending or has failed has handed no
\* result to its caller, whatever it had collected.
C15_OnlySuccessPath ==
    \A i \in Made :
        LET s == inv[i]
        IN  /\ s.pc = "resolved" =>
                   /\ \A k \in 1..Len(options.rules) :
                          /\ Cardinality(CallsOf(s, k)) = 1
                          /\ Cardinality(SettlementsOf(s, k)) = 1
                          /\ \A p \in SettlementsOf(s, k) : s.trace[p].outcome.kind = "return"
                   /\ ThrowingCalls(s) = {}
                   /\ Calls(s, "call") = Len(options.rules)
            /\ \A k \in 1..Len(options.rules) : Cardinality(CallsOf(s, k)) <= 1
            /\ s.pc # "resolved" => s.result = <<>>
            /\ s.pc = "rejected" => s.error.type # "GatekeeperUnauthorizedError"
                                     \/ DOMAIN s.error = {"type", "message", "reason", "rule"}

\* On an instance with two rules one invocation failed at the second rule after
\* it had stored the result of the first, and another succeeded.
C15_Witness ==
    /\ Len(options.rules) = 2
    /\ \E i \in Invocations :
           /\ inv[i].pc = "rejected"
           /\ inv[i].next = 2
           /\ DOMAIN inv[i].returnOfRuleSet # {}
    /\ \E i \in Invocations : inv[i].pc = "resolved" /\ Calls(inv[i], "settle") = 2

\* C16: the rule of a GatekeeperUnauthorizedError that trust rejects with is the
\* name of a rule of the list whose evaluator that invocation has called, and is
\* never the default 'failcheck' of the constructor.
C16_RuleIsStarted ==
    \A i \in Invocations :
        (inv[i].pc = "rejected" /\ inv[i].error.type = "GatekeeperUnauthorizedError") =>
            /\ inv[i].error.rule # Str("failcheck")
            /\ \E p \in At(inv[i], "call") :
                   inv[i].error.rule = Str(TagAt(inv[i].trace[p].index))

\* The first rule of a list threw in the turn it was called, and trust rejected
\* with a GatekeeperUnauthorizedError.
C16_Witness ==
    \E i \in Invocations :
        /\ inv[i].pc = "rejected"
        /\ inv[i].error.type = "GatekeeperUnauthorizedError"
        /\ inv[i].next = 1
        /\ Calls(inv[i], "settle") = 1

\* The rules of the list that carry the name t, and the last of them.
RulesNamed(t) == {k \in 1..Len(options.rules) : TagAt(k) = t}
LastNamed(t) == CHOOSE k \in RulesNamed(t) : \A j \in RulesNamed(t) : j <= k

\* C17 (name collisions overwrite): when several rules share a name and each of
\* them returned a value other than undefined, every one of them was called, in
\* declaration order, and the result of the invocation holds under that name
\* the value of the last of them; the keys of the result are names of rules.
C17_LaterWins ==
    \A i \in Invocations :
        inv[i].pc = "resolved" =>
            /\ DOMAIN inv[i].result \subseteq {TagAt(k) : k \in 1..Len(options.rules)}
            /\ \A t \in {TagAt(k) : k \in 1..Len(options.rules)} :
                   (Cardinality(RulesNamed(t)) > 1 /\ RulesNamed(t) \subseteq ReturnedValue(inv[i])) =>
                       /\ \A j, k \in RulesNamed(t) :
                              j < k => \E p \in CallsOf(inv[i], j), q \in CallsOf(inv[i], k) : p < q
                       /\ t \in DOMAIN inv[i].result
                       /\ \A p \in SettlementsOf(inv[i], LastNamed(t)) :
                              inv[i].result[t] = inv[i].trace[p].outcome.value

\* Two rules of one name returned different values, and the invocation succeeded.
C17_Witness ==
    \E i \in Invocations :
        /\ inv[i].pc = "resolved"
        /\ Len(options.rules) = 2
        /\ TagAt(1) = TagAt(2)
        /\ ReturnedValue(inv[i]) = {1, 2}
        /\ \E p \in SettlementsOf(inv[i], 1), q \in SettlementsOf(inv[i], 2) :
               inv[i].trace[p].outcome # inv[i].trace[q].outcome

\* C18 (every invocation settles): no invocation stays pending: each is, again
\* and again, not yet made or settled, and since one that was made never
\* becomes unmade and one that has settled never changes again, each invocation
\* that was made eventually has resolved or rejected, and stays so.  One that
\* has resolved carries a result and no error, one that has rejected an error
\* and no result.
C18_Settles ==
    /\ \A i \in Invocations : []<>(inv[i].pc \in {"idle", "resolved", "rejected"})
    /\ [](\A i \in Invocations :
             /\ inv[i].pc = "resolved" => inv[i].error = Undefined
             /\ inv[i].pc = "rejected" => inv[i].error # Undefined /\ inv[i].result = <<>>)
    /\ [][\A i \in Invocations :
             /\ inv[i].pc # "idle" => inv'[i].pc # "idle"
             /\ inv[i].pc \in {"resolved", "rejected"} => inv'[i] = inv[i]]_vars

\* Every invocation was made and has settled, one of them after two awaits.
C18_Witness ==
    /\ \A i \in Invocations : inv[i].pc \in {"resolved", "rejected"}
    /\ \E i \in Invocations : Calls(inv[i], "settle") = 2

\* The values other than undefined that JavaScript takes for false in a
\* condition (of those the evaluators of the model return: false and '').
Falsy == {Bool(FALSE), Str(""), Null}

\* C19 (only undefined is the empty sentinel): when an evaluator has returned a
\* falsy value other than undefined, trust has gone on to call the next rule or,
\* after the last rule, has resolved; the result of a successful invocation
\* holds exactly that value under the rule's name (when no later rule has that
\* name); and an invocation is rejected only when an evaluator, capture or the
\* context function threw.
C19_FalsyIsStored ==
    \A i \in Made :
        LET s == inv[i]
        IN  /\ \A p \in At(s, "settle") :
                   s.trace[p].outcome.kind = "return" /\ s.trace[p].outcome.value \in Falsy =>
                       LET k == s.trace[p].index
                       IN  /\ IF k < Len(options.rules)
                              THEN s.trace[p + 1] = Invoke(options, [s EXCEPT !.next = k + 1])
                              ELSE s.pc = "resolved"
                           /\ TagAt(k) \in DOMAIN s.returnOfRuleSet
                           /\ (s.pc = "resolved" /\ k = LastNamed(TagAt(k))) =>
                                  /\ TagAt(k) \in DOMAIN s.result
                                  /\ s.result[TagAt(k)] = s.trace[p].outcome.value
            /\ s.pc = "rejected" => ThrowingCalls(s) # {} \/ NormalizationThrows(s) # {}

\* The first of two rules returned false and the second the empty string, and
\* the invocation succeeded with both entries.
C19_Witness ==
    \E i \in Invocations :
        /\ inv[i].pc = "resolved"
        /\ Len(options.rules) = 2
        /\ TagAt(1) # TagAt(2)
        /\ inv[i].result = [t \in {TagAt(1), TagAt(2)} |->
                                IF t = TagAt(1) THEN Bool(FALSE) ELSE Str("")]

\* C20 (normalisation order): in every invocation the call of a configured
\* context function is the first call trust makes, the call of capture comes
\* after it and before every call of an evaluator; and when the context function
\* threw, capture was not called and the invocation has rejected with what the
\* context function threw.
C20_ContextCaptureRules ==
    \A i \in Made :
        LET s == inv[i]
        IN  /\ \A p \in At(s, "context"), q \in At(s, "capture") : p < q
            /\ \A q \in At(s, "capture"), r \in At(s, "call") : q < r
            /\ \A p \in At(s, "context"), r \in At(s, "call") : p < r
            /\ options.context # "none" => s.trace[1].ev = "context"
            /\ At(s, "call") # {} => At(s, "capture") # {}
            /\ ContextThrew(s) =>
                   /\ At(s, "capture") = {}
                   /\ s.pc = "rejected"
                   /\ s.error = s.trace[1].outcome.value

\* The context function threw in a call whose input capture would have
\* rejected too; another call on the same instance went through context,
\* capture and a rule.
C20_Witness ==
    /\ options.context = "require"
    /\ options.capture = "normalize"
    /\ \E i \in Invocations :
           /\ inv[i].pc = "rejected"
           /\ inv[i].input = Str("")
           /\ inv[i].error = NewError("context required", "context")
    /\ \E i \in Invocations :
           /\ Len(inv[i].trace) >= 3
           /\ <<inv[i].trace[1].ev, inv[i].trace[2].ev, inv[i].trace[3].ev>> =
                  <<"context", "capture", "call">>

====
